---------------------------- MODULE Spec2Model ----------------------------
(***************************************************************************)
(* A model of backend/main.py of the MRW commissions dashboard: the text,  *)
(* month and number normalizers, the column detector, the mapping          *)
(* sanitizer, normalize_dataset, the analysis endpoint and the persisted   *)
(* mapping file.                                                           *)
(*                                                                         *)
(* Text is a sequence of characters, each a one-character string; the      *)
(* precomposed accented letters and the combining accent are named by      *)
(* their code point ("U+00F3" is o with acute, "U+0301" the combining      *)
(* acute accent).  A Python value (a spreadsheet cell, a form field) is a  *)
(* tagged record, see StrV .. NoneV.  A float is a record with its value   *)
(* in thousandths, or NaN.                                                 *)
(***************************************************************************)
EXTENDS Integers, Sequences, FiniteSets, TLC

VARIABLES
    pc,         \* position of the request being served
    df,         \* the uploaded table: [columns, rows]
    mapping,    \* the mapping override handed to the operation
    request,    \* the remaining inputs of the operation
    response,   \* what the operation returned or raised
    file,       \* saved_mapping.json: absent, or its content
    saver,      \* each mapping_save request in flight
    reader,     \* each mapping_get request in flight
    completed   \* the mappings of the saves that have returned, oldest first

vars == <<pc, df, mapping, request, response, file, saver, reader, completed>>

\* Op(v), with v evaluated once
Let(v, Op(_)) == CHOOSE y \in {Op(x) : x \in {v}} : TRUE

(***************************************************************************)
(* Python values                                                           *)
(***************************************************************************)
StrV(s) == [t |-> "str", s |-> s, n |-> 0]
IntV(n) == [t |-> "int", s |-> <<>>, n |-> n]
\* a float, n in thousandths
FloatV(n) == [t |-> "float", s |-> <<>>, n |-> n]
\* float("nan"): what pandas puts in an empty cell
NaNV == [t |-> "nan", s |-> <<>>, n |-> 0]
NoneV == [t |-> "none", s |-> <<>>, n |-> 0]

\* bool(value)
Truthy(v) ==
    CASE v.t = "str" -> v.s # <<>>
      [] v.t = "int" -> v.n # 0
      [] v.t = "float" -> v.n # 0
      [] v.t = "nan" -> TRUE
      [] OTHER -> FALSE

Digits == <<"0", "1", "2", "3", "4", "5", "6", "7", "8", "9">>

DigitValues == [c \in {Digits[i] : i \in 1..10} |-> (CHOOSE i \in 1..10 : Digits[i] = c) - 1]

DigitValue(c) == DigitValues[c]

RECURSIVE NatToText(_)
NatToText(n) ==
    IF n < 10 THEN <<Digits[n + 1]>>
    ELSE NatToText(n \div 10) \o <<Digits[(n % 10) + 1]>>

IntToText(n) == IF n < 0 THEN <<"-">> \o NatToText(-n) ELSE NatToText(n)

\* the fraction digits of a float in thousandths, trailing zeros dropped, one kept
FracText(m) ==
    IF m % 1000 = 0 THEN <<"0">>
    ELSE IF m % 100 = 0 THEN <<Digits[(m \div 100) + 1]>>
    ELSE IF m % 10 = 0 THEN <<Digits[(m \div 100) + 1], Digits[((m \div 10) % 10) + 1]>>
    ELSE <<Digits[(m \div 100) + 1], Digits[((m \div 10) % 10) + 1], Digits[(m % 10) + 1]>>

FloatToText(n) ==
    LET a == IF n < 0 THEN -n ELSE n
    IN (IF n < 0 THEN <<"-">> ELSE <<>>) \o NatToText(a \div 1000) \o <<".">>
       \o FracText(a % 1000)

\* str(value)
PyStr(v) ==
    CASE v.t = "str" -> v.s
      [] v.t = "int" -> IntToText(v.n)
      [] v.t = "float" -> FloatToText(v.n)
      [] v.t = "nan" -> <<"n", "a", "n">>
      [] OTHER -> <<"N", "o", "n", "e">>

(***************************************************************************)
(* Characters                                                              *)
(***************************************************************************)
UpperLetters == <<"A", "B", "C", "D", "E", "F", "G", "H", "I", "J", "K", "L", "M", "N", "O", "P", "Q", "R", "S", "T", "U", "V", "W", "X", "Y", "Z">>
LowerLetters == <<"a", "b", "c", "d", "e", "f", "g", "h", "i", "j", "k", "l", "m", "n", "o", "p", "q", "r", "s", "t", "u", "v", "w", "x", "y", "z">>

IsSpace(c) == c \in {" ", "\t", "\n"}
IsDigit(c) == c \in DOMAIN DigitValues
LetterSet ==
    {UpperLetters[i] : i \in 1..26} \cup {LowerLetters[i] : i \in 1..26}
    \cup {"U+00E1", "U+00F3", "U+00D3"}
IsLetter(c) == c \in LetterSet
\* the regular expression class \w
IsWord(c) == IsLetter(c) \/ IsDigit(c) \/ c = "_"

\* str.lower, one character
LowerOf ==
    [c \in {UpperLetters[i] : i \in 1..26} \cup {"U+00D3"} |->
        IF c = "U+00D3" THEN "U+00F3"
        ELSE LowerLetters[CHOOSE i \in 1..26 : UpperLetters[i] = c]]

Lower(c) == IF c \in DOMAIN LowerOf THEN LowerOf[c] ELSE c

\* unicodedata.normalize("NFD", .), one character
NFD(c) ==
    CASE c = "U+00E1" -> <<"a", "U+0301">>
      [] c = "U+00F3" -> <<"o", "U+0301">>
      [] c = "U+00D3" -> <<"O", "U+0301">>
      [] OTHER -> <<c>>

\* unicodedata.category(c) = "Mn"
IsMn(c) == c = "U+0301"

RECURSIVE LStrip(_)
LStrip(s) == IF s # <<>> /\ IsSpace(Head(s)) THEN LStrip(Tail(s)) ELSE s

RECURSIVE RStrip(_)
RStrip(s) ==
    IF s # <<>> /\ IsSpace(s[Len(s)]) THEN RStrip(SubSeq(s, 1, Len(s) - 1)) ELSE s

\* str.strip()
Strip(s) == RStrip(LStrip(s))

LowerText(s) == [i \in 1..Len(s) |-> Lower(s[i])]

RECURSIVE StripAccents(_)
StripAccents(s) ==
    IF s = <<>> THEN <<>>
    ELSE SelectSeq(NFD(Head(s)), LAMBDA c : ~IsMn(c)) \o StripAccents(Tail(s))

\* re.sub(r"\s+", " ", .)
RECURSIVE CollapseSpaces(_)
CollapseSpaces(s) ==
    IF s = <<>> THEN <<>>
    ELSE IF IsSpace(Head(s))
         THEN <<" ">> \o CollapseSpaces(LStrip(Tail(s)))
         ELSE <<Head(s)>> \o CollapseSpaces(Tail(s))

StartsWith(s, p) == Len(p) <= Len(s) /\ SubSeq(s, 1, Len(p)) = p

\* needle in hay, for strings
Contains(hay, needle) ==
    \E i \in 0..(Len(hay) - Len(needle)) : SubSeq(hay, i + 1, i + Len(needle)) = needle

InSeq(x, seq) == \E i \in 1..Len(seq) : seq[i] = x

IndexIn(x, seq) == CHOOSE i \in 1..Len(seq) : seq[i] = x /\ \A j \in 1..(i - 1) : seq[j] # x

\* str.replace(c, ""), one character
Remove(s, c) == SelectSeq(s, LAMBDA x : x # c)

\* str.replace(a, b), one character each
Replace(s, a, b) == [i \in 1..Len(s) |-> IF s[i] = a THEN b ELSE s[i]]

\* str.rfind(c), 0 when absent (positions from 1)
RFind(s, c) ==
    IF \E i \in 1..Len(s) : s[i] = c
    THEN CHOOSE i \in 1..Len(s) : s[i] = c /\ \A j \in (i + 1)..Len(s) : s[j] # c
    ELSE 0

(***************************************************************************)
(* normalize_text                                                          *)
(***************************************************************************)
NormalizeStr(s) == CollapseSpaces(StripAccents(LowerText(Strip(s))))

normalize_text(value) ==
    NormalizeStr(IF Truthy(value) THEN PyStr(value) ELSE <<>>)

(***************************************************************************)
(* Months                                                                  *)
(***************************************************************************)
MONTHS_ES ==
    << <<"e", "n", "e", "r", "o">>, <<"f", "e", "b", "r", "e", "r", "o">>, <<"m", "a", "r", "z", "o">>, <<"a", "b", "r", "i", "l">>, <<"m", "a", "y", "o">>, <<"j", "u", "n", "i", "o">>, <<"j", "u", "l", "i", "o">>,
       <<"a", "g", "o", "s", "t", "o">>, <<"s", "e", "p", "t", "i", "e", "m", "b", "r", "e">>, <<"o", "c", "t", "u", "b", "r", "e">>, <<"n", "o", "v", "i", "e", "m", "b", "r", "e">>, <<"d", "i", "c", "i", "e", "m", "b", "r", "e">> >>

\* MONTH_ALIAS, in insertion order
MONTH_ALIAS ==
    << <<<<"e", "n", "e">>, <<"e", "n", "e", "r", "o">>>>, <<<<"f", "e", "b">>, <<"f", "e", "b", "r", "e", "r", "o">>>>, <<<<"m", "a", "r">>, <<"m", "a", "r", "z", "o">>>>,
       <<<<"a", "b", "r">>, <<"a", "b", "r", "i", "l">>>>, <<<<"m", "a", "y">>, <<"m", "a", "y", "o">>>>, <<<<"j", "u", "n">>, <<"j", "u", "n", "i", "o">>>>,
       <<<<"j", "u", "l">>, <<"j", "u", "l", "i", "o">>>>, <<<<"a", "g", "o">>, <<"a", "g", "o", "s", "t", "o">>>>, <<<<"s", "e", "p">>, <<"s", "e", "p", "t", "i", "e", "m", "b", "r", "e">>>>,
       <<<<"s", "e", "t">>, <<"s", "e", "p", "t", "i", "e", "m", "b", "r", "e">>>>, <<<<"o", "c", "t">>, <<"o", "c", "t", "u", "b", "r", "e">>>>, <<<<"n", "o", "v">>, <<"n", "o", "v", "i", "e", "m", "b", "r", "e">>>>,
       <<<<"d", "i", "c">>, <<"d", "i", "c", "i", "e", "m", "b", "r", "e">>>> >>

\* normalize_text(calendar.month_name[1..12]) in the default locale
month_name ==
    << <<"j", "a", "n", "u", "a", "r", "y">>, <<"f", "e", "b", "r", "u", "a", "r", "y">>, <<"m", "a", "r", "c", "h">>, <<"a", "p", "r", "i", "l">>, <<"m", "a", "y">>, <<"j", "u", "n", "e">>, <<"j", "u", "l", "y">>,
       <<"a", "u", "g", "u", "s", "t">>, <<"s", "e", "p", "t", "e", "m", "b", "e", "r">>, <<"o", "c", "t", "o", "b", "e", "r">>, <<"n", "o", "v", "e", "m", "b", "e", "r">>, <<"d", "e", "c", "e", "m", "b", "e", "r">> >>

IsMonth(s) == InSeq(s, MONTHS_ES)

\* raw starts with name followed by " ", "-" or "/"
PrefixOf(raw, name) ==
    /\ Len(raw) > Len(name)
    /\ raw[Len(name) + 1] \in {" ", "-", "/"}
    /\ SubSeq(raw, 1, Len(name)) = name

\* str(idx) for idx in 1..12
MonthNumbers == [i \in 1..12 |-> IntToText(i)]

AllDigits(s) == \A i \in 1..Len(s) : IsDigit(s[i])

\* the month number text matched by (0?[1-9]|1[0-2])
IsMonthNumber(s) ==
    \/ Len(s) = 1 /\ IsDigit(s[1]) /\ s[1] # "0"
    \/ Len(s) = 2 /\ s[1] = "0" /\ IsDigit(s[2]) /\ s[2] # "0"
    \/ Len(s) = 2 /\ s[1] = "1" /\ s[2] \in {"0", "1", "2"}

\* the suffix matched by ([/-]\d{2,4})?
IsYearSuffix(s) ==
    \/ s = <<>>
    \/ /\ Len(s) \in 3..5
       /\ s[1] \in {"/", "-"}
       /\ AllDigits(Tail(s))

\* the lengths k for which re.fullmatch(r"(0?[1-9]|1[0-2])([/-]\d{2,4})?", raw)
\* matches with group 1 = raw[1..k]
CompactSplits(raw) ==
    {k \in 1..2 : k <= Len(raw) /\ IsMonthNumber(SubSeq(raw, 1, k))
                  /\ IsYearSuffix(SubSeq(raw, k + 1, Len(raw)))}

TextToNat(s) ==
    IF Len(s) = 1 THEN DigitValue(s[1]) ELSE 10 * DigitValue(s[1]) + DigitValue(s[2])

First(S) == CHOOSE i \in S : \A j \in S : i <= j

\* normalize_month from the normalized text on
MonthOf(raw) ==
    LET alias(i) == MONTH_ALIAS[i][1] = raw
        number(i) == raw = MonthNumbers[i]
        english(i) == raw = month_name[i]
        prefix(i) == PrefixOf(raw, MONTHS_ES[i])
        aliasPrefix(i) == PrefixOf(raw, MONTH_ALIAS[i][1])
        A == 1..Len(MONTH_ALIAS)
    IN  IF raw = <<>> THEN <<>>
        ELSE IF IsMonth(raw) THEN raw
        ELSE IF \E i \in A : alias(i) THEN MONTH_ALIAS[First({i \in A : alias(i)})][2]
        ELSE IF \E i \in 1..12 : number(i) THEN MONTHS_ES[First({i \in 1..12 : number(i)})]
        ELSE IF \E i \in 1..12 : english(i) THEN MONTHS_ES[First({i \in 1..12 : english(i)})]
        ELSE IF \E i \in 1..12 : prefix(i) THEN MONTHS_ES[First({i \in 1..12 : prefix(i)})]
        ELSE IF \E i \in A : aliasPrefix(i)
             THEN MONTH_ALIAS[First({i \in A : aliasPrefix(i)})][2]
        ELSE IF CompactSplits(raw) # {}
             THEN MONTHS_ES[TextToNat(SubSeq(raw, 1, CHOOSE k \in CompactSplits(raw) : TRUE))]
        ELSE raw

normalize_month(value) == Let(normalize_text(value), MonthOf)

\* a match of \b(19\d{2}|20\d{2}|21\d{2})\b starting at position i of s
YearAt(s, i) ==
    /\ i + 3 <= Len(s)
    /\ AllDigits(SubSeq(s, i, i + 3))
    /\ SubSeq(s, i, i + 1) \in {<<"1", "9">>, <<"2", "0">>, <<"2", "1">>}
    /\ (i = 1 \/ ~IsWord(s[i - 1]))
    /\ (i + 3 = Len(s) \/ ~IsWord(s[i + 4]))

\* extract_year; 0 stands for None. A cell with date fields (a Timestamp) is not
\* among the modelled values.
extract_year(value) ==
    IF value.t = "none" THEN 0
    ELSE LET s == PyStr(value)
             at == {i \in 1..Len(s) : YearAt(s, i)}
         IN  IF at = {} THEN 0
             ELSE LET i == CHOOSE i \in at : \A j \in at : i <= j
                  IN  1000 * DigitValue(s[i]) + 100 * DigitValue(s[i + 1])
                      + 10 * DigitValue(s[i + 2]) + DigitValue(s[i + 3])

\* normalize_month_year(value), fallback_year = None
normalize_month_year(value) ==
    LET month == normalize_month(value)
        year == extract_year(value)
    IN  IF ~IsMonth(month) THEN <<>>
        ELSE IF year # 0 THEN month \o <<" ">> \o IntToText(year) ELSE month

\* month_year_sort_key(label): <<year, month_idx, normalized>>
month_year_sort_key(label) ==
    LET normalized == normalize_text(StrV(label))
        year == extract_year(StrV(normalized))
        month == normalize_month(StrV(normalized))
        month_idx == IF IsMonth(month) THEN IndexIn(month, MONTHS_ES) ELSE 99
    IN  <<year, month_idx, normalized>>

(***************************************************************************)
(* Numbers: a float is [nan, m], m its value in thousandths                *)
(***************************************************************************)
F(m) == [nan |-> FALSE, m |-> m]
NaNF == [nan |-> TRUE, m |-> 0]

\* a > 0 for a float
Positive(a) == ~a.nan /\ a.m > 0

RECURSIVE DigitsToNat(_)
DigitsToNat(s) ==
    IF s = <<>> THEN 0
    ELSE 10 * DigitsToNat(SubSeq(s, 1, Len(s) - 1)) + DigitValue(s[Len(s)])

\* the thousandths of the fraction digits s (digits after the third are cut)
FracToMills(s) ==
    LET d(i) == IF i <= Len(s) THEN DigitValue(s[i]) ELSE 0
    IN  100 * d(1) + 10 * d(2) + d(3)

\* float(text) for decimal text: [sign] digits [. [digits]], or [sign] . digits,
\* surrounded by white space; anything else raises ValueError.  Exponents,
\* underscores and the words inf and nan are not among the modelled texts.
ParseFloat(text) ==
    LET t == Strip(text)
        signed == t # <<>> /\ t[1] \in {"+", "-"}
        u == IF signed THEN Tail(t) ELSE t
        dot == IF InSeq(".", u) THEN IndexIn(".", u) ELSE Len(u) + 1
        ip == SubSeq(u, 1, dot - 1)
        fp == SubSeq(u, dot + 1, Len(u))
        ok == /\ AllDigits(ip) /\ AllDigits(fp)
              /\ Len(ip) + Len(fp) > 0
        mag == 1000 * DigitsToNat(ip) + FracToMills(fp)
    IN  IF ok THEN [exc |-> "", value |-> F(IF signed /\ t[1] = "-" THEN -mag ELSE mag)]
        ELSE [exc |-> "ValueError", value |-> F(0)]

parse_number(value) ==
    IF value.t = "none" THEN F(0)
    ELSE IF value.t = "int" THEN F(1000 * value.n)
    ELSE IF value.t = "float" THEN F(value.n)
    ELSE IF value.t = "nan" THEN NaNF
    ELSE LET text == Strip(PyStr(value))
             t1 == Remove(Remove(text, "U+20AC"), " ")
             t2 == IF InSeq(",", t1) /\ InSeq(".", t1)
                   THEN IF RFind(t1, ",") > RFind(t1, ".")
                        THEN Replace(Remove(t1, "."), ",", ".")
                        ELSE Remove(t1, ",")
                   ELSE Replace(t1, ",", ".")
             parsed == ParseFloat(t2)
         IN  IF text = <<>> THEN F(0)
             ELSE IF normalize_text(StrV(text)) \in {<<"n", "a", "n">>, <<"n", "o", "n", "e">>, <<"n", "u", "l", "l">>} THEN F(0)
             ELSE IF parsed.exc = "" THEN parsed.value
             ELSE F(0)

(***************************************************************************)
(* Tables: df = [columns, rows], rows[i][j] the cell of row i in column j. *)
(* Headers are text and distinct (read_excel renames a repeated header).   *)
(***************************************************************************)
ColumnIndex(d, col) == IndexIn(col, d.columns)

\* df[col]
Series(d, col) == [i \in 1..Len(d.rows) |-> d.rows[i][ColumnIndex(d, col)]]

IsNA(v) == v.t \in {"nan", "none"}

\* Series.ffill(): a missing cell takes the value carried down to the cell above
RECURSIVE ffill(_)
ffill(series) ==
    IF Len(series) <= 1 THEN series
    ELSE Let(ffill(SubSeq(series, 1, Len(series) - 1)),
             LAMBDA init : Append(init, IF IsNA(series[Len(series)]) THEN init[Len(init)]
                                        ELSE series[Len(series)]))

\* clean_text_series, one cell
CleanText(v) ==
    LET s == IF IsNA(v) THEN <<>> ELSE Strip(PyStr(v))
    IN  IF LowerText(s) \in {<<"n", "a", "n">>, <<"n", "o", "n", "e">>, <<"n", "u", "l", "l">>} THEN <<>> ELSE s

clean_text_series(series) == [i \in 1..Len(series) |-> CleanText(series[i])]

\* the keys of {normalize_text(col): col for col in df.columns}, in insertion
\* order; norm[i] is the normalized header of column i
RECURSIVE NormalizedKeys(_)
NormalizedKeys(norm) ==
    IF norm = <<>> THEN <<>>
    ELSE Let(NormalizedKeys(SubSeq(norm, 1, Len(norm) - 1)),
             LAMBDA init : IF InSeq(norm[Len(norm)], init) THEN init
                           ELSE Append(init, norm[Len(norm)]))

\* normalized[key]: the last column with that key
NormalizedValue(cols, norm, key) ==
    cols[CHOOSE i \in 1..Len(cols) :
            norm[i] = key /\ \A j \in (i + 1)..Len(cols) : norm[j] # key]

\* the two passes of find_column over the normalized headers; <<>> stands for None
FindKeys(cols, norm, keys, candidates) ==
    LET exact == {c \in 1..Len(candidates) : InSeq(candidates[c], keys)}
        partial == {k \in 1..Len(keys) :
                      \E c \in 1..Len(candidates) : Contains(keys[k], candidates[c])}
    IN  IF exact # {}
        THEN NormalizedValue(cols, norm,
                 candidates[CHOOSE c \in exact : \A x \in exact : c <= x])
        ELSE IF partial # {}
        THEN NormalizedValue(cols, norm,
                 keys[CHOOSE k \in partial : \A x \in partial : k <= x])
        ELSE <<>>

FindIn(cols, norm, candidates) ==
    Let(NormalizedKeys(norm), LAMBDA keys : FindKeys(cols, norm, keys, candidates))

NormalizedHeaders(d) == [i \in 1..Len(d.columns) |-> normalize_text(StrV(d.columns[i]))]

find_column(d, candidates) ==
    Let(NormalizedHeaders(d), LAMBDA norm : FindIn(d.columns, norm, candidates))

month_columns(d) == SelectSeq(d.columns, LAMBDA col : IsMonth(normalize_month(StrV(col))))

SalespersonWords ==
    << <<"c", "o", "m", "e", "r", "c", "i", "a", "l">>, <<"n", "o", "m", "b", "r", "e", " ", "c", "o", "m", "e", "r", "c", "i", "a", "l">>, <<"v", "e", "n", "d", "e", "d", "o", "r">>, <<"a", "g", "e", "n", "t", "e">>, <<"s", "a", "l", "e", "s", "p", "e", "r", "s", "o", "n">>,
       <<"a", "s", "e", "s", "o", "r">>, <<"g", "e", "s", "t", "o", "r">> >>
ClientWords ==
    << <<"c", "l", "i", "e", "n", "t", "e">>, <<"n", "o", "m", "b", "r", "e", " ", "c", "l", "i", "e", "n", "t", "e">>, <<"c", "u", "e", "n", "t", "a">>, <<"c", "u", "s", "t", "o", "m", "e", "r">>, <<"r", "a", "z", "o", "n", " ", "s", "o", "c", "i", "a", "l">>,
       <<"e", "m", "p", "r", "e", "s", "a">>, <<"d", "e", "s", "t", "i", "n", "a", "t", "a", "r", "i", "o">> >>
MonthWords == << <<"m", "e", "s">>, <<"m", "o", "n", "t", "h">> >>
RevenueWords ==
    << <<"f", "a", "c", "t", "u", "r", "a", "c", "i", "o", "n", " ", "b", "r", "u", "t", "a">>, <<"f", "a", "c", "t", "u", "r", "a", "c", "i", "o", "n">>, <<"v", "e", "n", "t", "a", "s">>, <<"i", "m", "p", "o", "r", "t", "e">>, <<"t", "o", "t", "a", "l">>,
       <<"r", "e", "v", "e", "n", "u", "e">> >>

\* detect_mapping from the columns found
Detected(salesperson_col, client_col, month_col, revenue_col, m_cols) ==
    [structure |-> IF month_col # <<>> /\ revenue_col # <<>> THEN <<"l", "o", "n", "g">>
                   ELSE IF m_cols # <<>> THEN <<"w", "i", "d", "e">> ELSE <<"u", "n", "k", "n", "o", "w", "n">>,
     comercial |-> salesperson_col,
     cliente |-> client_col,
     mes |-> month_col,
     facturacion |-> revenue_col,
     month_columns |-> m_cols]

detect_mapping(d) ==
    Let(NormalizedHeaders(d),
        LAMBDA norm :
            Let(<<FindIn(d.columns, norm, SalespersonWords),
                  FindIn(d.columns, norm, ClientWords),
                  FindIn(d.columns, norm, MonthWords),
                  FindIn(d.columns, norm, RevenueWords),
                  month_columns(d)>>,
                LAMBDA c : Detected(c[1], c[2], c[3], c[4], c[5])))

(***************************************************************************)
(* Outcomes: a value returned, or an exception raised.  "HTTP400" is the   *)
(* HTTPException(status_code=400) of the code, a client error; any other   *)
(* exception leaves the request handler uncaught.                          *)
(***************************************************************************)
Ok(v) == [exc |-> "", value |-> v]
Raise(e) == [exc |-> e, value |-> <<>>]

(***************************************************************************)
(* JSON values, and a mapping object as a function from its keys; a key    *)
(* the object does not hold maps to JMissing.                              *)
(***************************************************************************)
JStr(s) == [t |-> "str", s |-> s, items |-> <<>>]
JNum == [t |-> "number", s |-> <<>>, items |-> <<>>]
JBool == [t |-> "bool", s |-> <<>>, items |-> <<>>]
JNull == [t |-> "null", s |-> <<>>, items |-> <<>>]
JList(items) == [t |-> "list", s |-> <<>>, items |-> items]
JObj == [t |-> "object", s |-> <<>>, items |-> <<>>]
JMissing == [t |-> "missing", s |-> <<>>, items |-> <<>>]

MappingKeys == {"structure", "comercial", "cliente", "mes", "facturacion", "month_columns"}

\* {} (and None, which normalize_dataset turns into {})
EmptyMapping == [k \in MappingKeys |-> JMissing]

\* hash(value) raises TypeError for a list and for a dict
Hashable(v) == v.t \notin {"list", "object"}

\* pick without the test of membership
PickAny(col, allowed) == IF col.t = "str" THEN col.s ELSE <<>>

\* pick(col) of sanitize_mapping
pick(col, allowed) == IF col.t = "str" /\ InSeq(col.s, allowed) THEN col.s ELSE <<>>

sanitize_mapping(m, available_columns) ==
    LET month_cols_raw == m["month_columns"]
        month_cols ==
            IF month_cols_raw.t = "list"
            THEN LET kept == SelectSeq(month_cols_raw.items,
                                 LAMBDA col : col.t = "str" /\ InSeq(col.s, available_columns))
                 IN  [i \in 1..Len(kept) |-> kept[i].s]
            ELSE <<>>
        structure == IF m["structure"].t = "missing" THEN JStr(<<"u", "n", "k", "n", "o", "w", "n">>) ELSE m["structure"]
    IN  IF ~Hashable(structure) THEN Raise("TypeError")
        ELSE Ok([structure |-> IF structure.t = "str"
                                  /\ structure.s \in {<<"l", "o", "n", "g">>, <<"w", "i", "d", "e">>, <<"u", "n", "k", "n", "o", "w", "n">>}
                               THEN structure.s ELSE <<"u", "n", "k", "n", "o", "w", "n">>,
                 comercial |-> pick(m["comercial"], available_columns),
                 cliente |-> pick(m["cliente"], available_columns),
                 mes |-> pick(m["mes"], available_columns),
                 facturacion |-> pick(m["facturacion"], available_columns),
                 month_columns |-> month_cols])

(***************************************************************************)
(* normalize_dataset                                                       *)
(***************************************************************************)
\* a or b, for text
OrElse(a, b) == IF a # <<>> THEN a ELSE b

\* the columns the fallback may take: not a detected month column, not "total"
NonMonth(d, detected) ==
    SelectSeq(d.columns,
              LAMBDA c : ~InSeq(c, detected.month_columns)
                         /\ normalize_text(StrV(c)) # <<"t", "o", "t", "a", "l">>)

\* lines 264-278 of normalize_dataset, given detect_mapping(df)
ResolveWith(d, user_mapping, detected) ==
    LET salesperson0 == OrElse(user_mapping.comercial, detected.comercial)
        client0 == OrElse(user_mapping.cliente, detected.cliente)
        non_month == NonMonth(d, detected)
        fallback == /\ (salesperson0 = <<>> \/ client0 = <<>>)
                    /\ detected.month_columns # <<>>
                    /\ Len(non_month) >= 2
    IN  [salesperson_col |-> IF fallback THEN OrElse(salesperson0, non_month[1])
                             ELSE salesperson0,
         client_col |-> IF fallback THEN OrElse(client0, non_month[2]) ELSE client0,
         month_col |-> OrElse(user_mapping.mes, detected.mes),
         revenue_col |-> OrElse(user_mapping.facturacion, detected.facturacion),
         m_cols |-> IF user_mapping.month_columns # <<>> THEN user_mapping.month_columns
                    ELSE detected.month_columns,
         structure |-> user_mapping.structure]

\* salesperson_col, client_col, month_col, revenue_col, m_cols and structure as
\* normalize_dataset has them when it reaches the check of line 280
Resolve(d, user_mapping) ==
    Let(detect_mapping(d), LAMBDA detected : ResolveWith(d, user_mapping, detected))

\* structure after line 290
ResolvedStructure(r) ==
    IF r.structure = <<"u", "n", "k", "n", "o", "w", "n">>
    THEN IF r.month_col # <<>> /\ r.revenue_col # <<>> THEN <<"l", "o", "n", "g">> ELSE <<"w", "i", "d", "e">>
    ELSE r.structure

\* the rows of a frame from its four columns; index is the pandas row label
Frame(comercial, cliente, mes, facturacion_bruta) ==
    [i \in 1..Len(comercial) |->
        [index |-> i - 1,
         comercial |-> comercial[i],
         cliente |-> cliente[i],
         mes |-> mes[i],
         facturacion_bruta |-> facturacion_bruta[i]]]

\* the frame built for the long layout
LongFrame(d, r) ==
    Let(<<clean_text_series(ffill(Series(d, r.salesperson_col))),
          clean_text_series(Series(d, r.client_col)),
          [i \in 1..Len(d.rows) |-> normalize_month_year(d.rows[i][ColumnIndex(d, r.month_col)])],
          [i \in 1..Len(d.rows) |-> parse_number(d.rows[i][ColumnIndex(d, r.revenue_col)])]>>,
        LAMBDA c : Frame(c[1], c[2], c[3], c[4]))

\* the frame of one month column of the wide layout
WideColumnFrame(d, r, col) ==
    Let(<<clean_text_series(ffill(Series(d, r.salesperson_col))),
          clean_text_series(Series(d, r.client_col)),
          normalize_month_year(StrV(col)),
          [i \in 1..Len(d.rows) |-> parse_number(d.rows[i][ColumnIndex(d, col)])]>>,
        LAMBDA c : Frame(c[1], c[2], [i \in 1..Len(d.rows) |-> c[3]], c[4]))

\* the frames of the month columns laid out row by row
ConcatByRow(frames, n) ==
    [p \in 1..(Len(frames) * n) |->
        [frames[((p - 1) % Len(frames)) + 1][((p - 1) \div Len(frames)) + 1]
            EXCEPT !.index = p - 1]]

\* pd.concat(frames, ignore_index=True), frames of n rows each
ConcatFrames(frames, n) ==
    [p \in 1..(Len(frames) * n) |->
        [frames[((p - 1) \div n) + 1][((p - 1) % n) + 1] EXCEPT !.index = p - 1]]

WideFrame(d, r) ==
    Let([k \in 1..Len(r.m_cols) |-> WideColumnFrame(d, r, r.m_cols[k])],
        LAMBDA frames : ConcatFrames(frames, Len(d.rows)))

\* the filters with a revenue of 0 let through
KeepsZero(rec) ==
    /\ rec.comercial # <<>> /\ rec.cliente # <<>> /\ rec.mes # <<>>
    /\ ~rec.facturacion_bruta.nan /\ rec.facturacion_bruta.m >= 0

\* the four filters of lines 328-331
Keeps(rec) ==
    /\ rec.comercial # <<>>
    /\ rec.cliente # <<>>
    /\ rec.mes # <<>>
    /\ Positive(rec.facturacion_bruta)

PostFilter(frame) == SelectSeq(frame, Keeps)

\* normalize_dataset from line 264 on
NormalizeWith(d, r) ==
    IF r.salesperson_col = <<>> \/ r.client_col = <<>> THEN Raise("HTTP400")
    ELSE IF ResolvedStructure(r) = <<"l", "o", "n", "g">>
    THEN IF r.month_col = <<>> \/ r.revenue_col = <<>> THEN Raise("HTTP400")
         ELSE Ok(PostFilter(LongFrame(d, r)))
    ELSE IF r.m_cols = <<>> THEN Raise("HTTP400")
         \* df[[c, c]][c] is a DataFrame, which has no .str accessor
         ELSE IF r.salesperson_col = r.client_col THEN Raise("AttributeError")
         ELSE Ok(PostFilter(WideFrame(d, r)))

normalize_dataset(d, m) ==
    Let(sanitize_mapping(m, d.columns),
        LAMBDA sanitized :
            IF sanitized.exc # "" THEN Raise(sanitized.exc)
            ELSE Let(Resolve(d, sanitized.value), LAMBDA r : NormalizeWith(d, r)))

(***************************************************************************)
(* sorted(): order of text by code point, order of the sort keys, and a    *)
(* stable sort.                                                            *)
(***************************************************************************)
\* the characters of the model in code point order
CodePoints ==
    <<" ", ",", "-", ".", "/", "0", "1", "2", "3", "4", "5", "6", "7", "8", "9", "A", "B", "C", "D", "E", "F", "G", "H", "I", "J", "K", "L", "M", "N", "O", "P", "Q", "R", "S", "T", "U", "V", "W", "X", "Y", "Z", "_", "a", "b", "c", "d", "e", "f", "g", "h", "i", "j", "k", "l", "m", "n", "o", "p", "q", "r", "s", "t", "u", "v", "w", "x", "y", "z", "U+00D3", "U+00E1", "U+00F3", "U+0301", "U+20AC">>

CodePoint == [c \in {CodePoints[i] : i \in 1..Len(CodePoints)} |-> IndexIn(c, CodePoints)]

\* a < b for str
TextLess(a, b) ==
    \E i \in 1..Len(b) :
        /\ i - 1 <= Len(a)
        /\ SubSeq(a, 1, i - 1) = SubSeq(b, 1, i - 1)
        /\ (i > Len(a) \/ CodePoint[a[i]] < CodePoint[b[i]])

\* a < b for the tuples month_year_sort_key returns
KeyLess(a, b) ==
    \/ a[1] < b[1]
    \/ a[1] = b[1] /\ a[2] < b[2]
    \/ a[1] = b[1] /\ a[2] = b[2] /\ TextLess(a[3], b[3])

\* the sorted list with one more member, put after the members not greater
InsertKeyed(sorted, x) ==
    Let(Cardinality({i \in 1..Len(sorted) : ~KeyLess(x[1], sorted[i][1])}),
        LAMBDA k : SubSeq(sorted, 1, k) \o <<x>> \o SubSeq(sorted, k + 1, Len(sorted)))

RECURSIVE SortKeyed(_)
SortKeyed(keyed) ==
    IF keyed = <<>> THEN <<>>
    ELSE Let(SortKeyed(SubSeq(keyed, 1, Len(keyed) - 1)),
             LAMBDA sorted : InsertKeyed(sorted, keyed[Len(keyed)]))

\* sorted(labels, key=month_year_sort_key): the key of each member is computed
\* once, and members of equal key keep their order
SortedByMonthYear(labels) ==
    Let(SortKeyed([i \in 1..Len(labels) |-> <<month_year_sort_key(labels[i]), labels[i]>>]),
        LAMBDA sorted : [i \in 1..Len(sorted) |-> sorted[i][2]])

\* sorted(texts)
SortedTexts(texts) ==
    Let(SortKeyed([i \in 1..Len(texts) |-> <<<<0, 0, texts[i]>>, texts[i]>>]),
        LAMBDA sorted : [i \in 1..Len(sorted) |-> sorted[i][2]])

\* Series.unique(): the values in the order of their first appearance
Unique(values) ==
    Let({i \in 1..Len(values) : \A j \in 1..(i - 1) : values[j] # values[i]},
        LAMBDA firsts : [k \in 1..Cardinality(firsts) |->
                            values[CHOOSE i \in firsts :
                                      Cardinality({j \in firsts : j < i}) = k - 1]])

build_filter_options(normalized) ==
    [comerciales |-> SortedTexts(Unique([i \in 1..Len(normalized) |-> normalized[i].comercial])),
     meses |-> SortedByMonthYear(Unique([i \in 1..Len(normalized) |-> normalized[i].mes]))]

(***************************************************************************)
(* analyze.  The text of a JSON form field is None, "", a text that is no  *)
(* JSON, or the text of the JSON value json.  Money: a revenue is a float  *)
(* in thousandths, commission_rate a whole number of percent, a rounded    *)
(* amount a number of hundredths.                                           *)
(***************************************************************************)
NoText == [t |-> "none", json |-> JNull]
EmptyText == [t |-> "empty", json |-> JNull]
NotJson == [t |-> "invalid", json |-> JNull]
JsonText(v) == [t |-> "json", json |-> v]

\* str(item), for the items modelled: a string and null
ItemText(item) == IF item.t = "str" THEN item.s ELSE <<"N", "o", "n", "e">>

parse_json_filter_list(raw_json) ==
    IF raw_json.t \in {"none", "empty"} THEN Ok(<<>>)
    ELSE IF raw_json.t = "invalid" THEN Raise("HTTP400")
    ELSE IF raw_json.json.t # "list" THEN Ok(<<>>)
    ELSE Ok(SelectSeq([i \in 1..Len(raw_json.json.items) |-> ItemText(raw_json.json.items[i])],
                      LAMBDA text : Strip(text) # <<>>))

RECURSIVE SumSeq(_)
SumSeq(values) ==
    IF values = <<>> THEN 0 ELSE SumSeq(SubSeq(values, 1, Len(values) - 1)) + values[Len(values)]

\* round(n / scale, 2) in hundredths, n >= 0; a tie goes to the even neighbour
Round2(n, scale) ==
    LET q == (n * 100) \div scale
        r == (n * 100) % scale
    IN  IF 2 * r < scale THEN q
        ELSE IF 2 * r > scale THEN q + 1
        ELSE IF q % 2 = 0 THEN q ELSE q + 1

\* the sum of the amounts each rounded
SumOfRounded(values, scale) == SumSeq([i \in 1..Len(values) |-> Round2(values[i], scale)])

\* round(float(series.sum()), 2)
RoundedSum(values, scale) == Round2(SumSeq(values), scale)

\* the filter of lines 466-471 on one column
FilterBy(records, field, targets) ==
    IF targets = <<>> THEN records
    ELSE Let({normalize_text(StrV(targets[i])) : i \in 1..Len(targets)},
             LAMBDA target_set :
                 SelectSeq(records, LAMBDA rec : normalize_text(StrV(rec[field])) \in target_set))

\* lines 473-505
Report(normalized, commission_rate, comerciales, meses, options) ==
    [commission_rate |-> commission_rate,
     filters |-> [comerciales |-> comerciales, meses |-> meses],
     totals |-> [facturacion_bruta |->
                     RoundedSum([i \in 1..Len(normalized) |->
                                    normalized[i].facturacion_bruta.m], 1000),
                 comision_eur |->
                     RoundedSum([i \in 1..Len(normalized) |->
                                    normalized[i].facturacion_bruta.m * commission_rate], 100000),
                 registros |-> Len(normalized)],
     options |-> options,
     rows |-> [i \in 1..Len(normalized) |->
                  [comercial |-> normalized[i].comercial,
                   cliente |-> normalized[i].cliente,
                   mes |-> normalized[i].mes,
                   facturacion_bruta |-> Round2(normalized[i].facturacion_bruta.m, 1000),
                   comision_eur |->
                       Round2(normalized[i].facturacion_bruta.m * commission_rate, 100000)]]]

\* lines 458-471
Filtered(normalized, req, multi_comerciales, multi_meses) ==
    Let(<<IF multi_comerciales = <<>> /\ Truthy(req.comercial)
          THEN <<req.comercial.s>> ELSE multi_comerciales,
          IF multi_meses = <<>> /\ Truthy(req.mes) THEN <<req.mes.s>> ELSE multi_meses>>,
        LAMBDA f : Report(FilterBy(FilterBy(normalized, "comercial", f[1]), "mes", f[2]),
                          req.commission_rate, f[1], f[2], build_filter_options(normalized)))

\* analyze(file, commission_rate, comercial, mes, comerciales_json, meses_json),
\* with no mapping_json and the mapping m that is saved
analyze(d, m, req) ==
    IF req.commission_rate < 0 THEN Raise("HTTP400")
    ELSE Let(normalize_dataset(d, m),
             LAMBDA normalized :
                 IF normalized.exc # "" THEN Raise(normalized.exc)
                 ELSE Let(<<parse_json_filter_list(req.comerciales_json),
                            parse_json_filter_list(req.meses_json)>>,
                          LAMBDA parsed :
                              IF parsed[1].exc # "" THEN Raise(parsed[1].exc)
                              ELSE IF parsed[2].exc # "" THEN Raise(parsed[2].exc)
                              ELSE Ok(Filtered(normalized.value, req,
                                               parsed[1].value, parsed[2].value))))

(***************************************************************************)
(* The persisted mapping.  A mapping object is a sequence of <<key, value>>*)
(* pairs of text; the file is [exists, text].                              *)
(***************************************************************************)
Quoted(text) == <<"\"">> \o text \o <<"\"">>

RECURSIVE Members(_)
\* the members of an object as json.dumps(., indent=2) writes them
Members(obj) ==
    IF obj = <<>> THEN <<>>
    ELSE (IF Len(obj) > 1 THEN Members(SubSeq(obj, 1, Len(obj) - 1)) \o <<",">> ELSE <<>>)
         \o <<"\n", " ", " ">> \o Quoted(obj[Len(obj)][1]) \o <<":", " ">>
         \o Quoted(obj[Len(obj)][2])

\* json.dumps(mapping, ensure_ascii=False, indent=2)
json_dumps(obj) ==
    IF obj = <<>> THEN <<"{", "}">> ELSE <<"{">> \o Members(obj) \o <<"\n", "}">>

\* json.loads(text) for the texts the file can hold: the text of an object of
\* objects, or else a text that is no JSON (the empty text, or the text of one
\* object followed by the end of the text of another)
json_loads(text, objects) ==
    IF \E obj \in objects : json_dumps(obj) = text
    THEN Ok(CHOOSE obj \in objects : json_dumps(obj) = text)
    ELSE Raise("JSONDecodeError")

\* open(path, "w"): the file is created or cut to nothing
Truncated(f) == [exists |-> TRUE, text |-> <<>>]

\* the write of data at the start of the file through a handle opened before
Written(f, data) ==
    [exists |-> TRUE, text |-> data \o SubSeq(f.text, Len(data) + 1, Len(f.text))]

(***************************************************************************)
(* SpecRows: normalize_dataset on a long and on a wide table, over every   *)
(* table of at most MaxRows rows with cells from the pools below.          *)
(***************************************************************************)
MaxRows == 2

LongColumns == << <<"C", "o", "m", "e", "r", "c", "i", "a", "l">>, <<"C", "l", "i", "e", "n", "t", "e">>, <<"M", "e", "s">>, <<"I", "m", "p", "o", "r", "t", "e">> >>
WideColumns == << <<"C", "o", "m", "e", "r", "c", "i", "a", "l">>, <<"C", "l", "i", "e", "n", "t", "e">>, <<"E", "n", "e", "r", "o">>, <<"F", "e", "b", " ", "2", "0", "2", "4">> >>

SalespersonCells == {NaNV, StrV(<<"A", "n", "a">>), StrV(<<" ">>)}
WideSalespersonCells == {NaNV, StrV(<<"A", "n", "a">>), StrV(<<"B", "o">>)}
ClientCells == {StrV(<<"X">>), NaNV}
\* a month cell and a revenue cell
LongTails ==
    { <<StrV(<<"E", "n", "e", " ", "2", "0", "2", "4">>), IntV(100)>>, <<StrV(<<"f", "o", "o">>), IntV(100)>>,
      <<StrV(<<"E", "n", "e", " ", "2", "0", "2", "4">>), IntV(0)>>, <<StrV(<<"E", "n", "e", " ", "2", "0", "2", "4">>), StrV(<<"-", "1", ",", "5">>)>> }

LongRows == {<<a, b, t[1], t[2]>> : a \in SalespersonCells, b \in ClientCells,
                                    t \in LongTails}
\* the cells under the two month columns
WideTails ==
    { <<StrV(<<"1", ".", "2", "3", "4", ",", "5", "6">>), IntV(7)>>, <<NaNV, IntV(7)>>, <<StrV(<<"1", ".", "2", "3", "4", ",", "5", "6">>), IntV(0)>> }
WideRows == {<<a, b, t[1], t[2]>> : a \in WideSalespersonCells, b \in ClientCells,
                                    t \in WideTails}

SeqsUpTo(S, n) == UNION {[1..k -> S] : k \in 0..n}

\* month_columns override that reverses the order of the detected month columns
ReversedMonths ==
    [EmptyMapping EXCEPT !["month_columns"] = JList(<<JStr(<<"F", "e", "b", " ", "2", "0", "2", "4">>), JStr(<<"E", "n", "e", "r", "o">>)>>)]

InitRows ==
    /\ pc = "start"
    /\ \/ /\ df \in {[columns |-> LongColumns, rows |-> rows] :
                        rows \in SeqsUpTo(LongRows, MaxRows)}
          /\ mapping = EmptyMapping
       \/ /\ df \in {[columns |-> WideColumns, rows |-> rows] :
                        rows \in SeqsUpTo(WideRows, MaxRows)}
          /\ mapping \in {EmptyMapping, ReversedMonths}
    /\ request = <<>>
    /\ response = <<>>
    /\ file = <<>> /\ saver = <<>> /\ reader = <<>> /\ completed = <<>>

\* a call of normalize_dataset(df, mapping)
Normalize ==
    /\ pc = "start"
    /\ response' = normalize_dataset(df, mapping)
    /\ pc' = "done"
    /\ UNCHANGED <<df, mapping, request, file, saver, reader, completed>>

SpecRows == InitRows /\ [][Normalize]_vars

(***************************************************************************)
(* Claims on SpecRows                                                      *)
(***************************************************************************)
Returned == pc = "done" /\ response.exc = ""

\* the frame normalize_dataset builds from df and mapping before the post-filter
Candidates ==
    LET r == Resolve(df, sanitize_mapping(mapping, df.columns).value)
    IN  IF ResolvedStructure(r) = <<"l", "o", "n", "g">> THEN LongFrame(df, r) ELSE WideFrame(df, r)

Failing(rec) ==
    \/ rec.comercial = <<>> \/ rec.cliente = <<>> \/ rec.mes = <<>>
    \/ rec.facturacion_bruta.nan \/ rec.facturacion_bruta.m <= 0

\* C1: every record normalize_dataset returns has a non-empty comercial, cliente
\* and mes and a revenue above 0; each is a candidate record as it was built, and
\* no candidate with an empty field or a revenue of 0 or less is among them.
C1_RecordsValid ==
    Returned =>
        LET cand == Candidates
            out == response.value
        IN  /\ \A k \in 1..Len(out) :
                  /\ out[k].comercial # <<>> /\ out[k].cliente # <<>> /\ out[k].mes # <<>>
                  /\ ~out[k].facturacion_bruta.nan /\ out[k].facturacion_bruta.m > 0
                  /\ out[k].index + 1 \in 1..Len(cand)
                  /\ out[k] = cand[out[k].index + 1]
            /\ \A i \in 1..Len(cand) :
                  Failing(cand[i]) => \A k \in 1..Len(out) : out[k].index # i - 1

\* a call that returned some records and dropped a candidate with revenue 0 and
\* one with an empty field
C1_Witness ==
    /\ Returned
    /\ response.value # <<>>
    /\ LET cand == Candidates
       IN  /\ \E i \in 1..Len(cand) :
                 /\ cand[i].facturacion_bruta = F(0)
                 /\ cand[i].comercial # <<>> /\ cand[i].cliente # <<>> /\ cand[i].mes # <<>>
           /\ \E i \in 1..Len(cand) : cand[i].cliente = <<>>

\* blank, as the claim has it: missing, or text that cleans to the empty string
Blank(v) == CleanText(v) = <<>>

SalespersonSeries ==
    Series(df, Resolve(df, sanitize_mapping(mapping, df.columns).value).salesperson_col)

\* the rows before row i whose salesperson cell is not blank
NonBlankBefore(series, i) == {j \in 1..(i - 1) : ~Blank(series[j])}

Max(S) == CHOOSE x \in S : \A y \in S : y <= x

\* C2: a record built from a row whose salesperson cell is blank has the cleaned
\* salesperson of the nearest row before it whose cell is not blank.
C2_BlankInherits ==
    Returned =>
        LET cand == Candidates
            series == SalespersonSeries
        IN  \A p \in 1..Len(cand) :
                LET i == ((p - 1) % Len(df.rows)) + 1
                IN  (Blank(series[i]) /\ NonBlankBefore(series, i) # {}) =>
                        cand[p].comercial = CleanText(series[Max(NonBlankBefore(series, i))])

\* the salesperson of row i as the code has it: of the last row up to i whose
\* cell is not missing
Comercial(series, i) ==
    LET js == {j \in 1..i : ~IsNA(series[j])}
    IN  IF js = {} THEN <<>> ELSE CleanText(series[Max(js)])

IsWide == df.columns = WideColumns

\* the month columns in the order of the mapping, else as detected
MonthColumnsUsed ==
    IF mapping["month_columns"].t = "list"
    THEN [k \in 1..Len(mapping["month_columns"].items) |-> mapping["month_columns"].items[k].s]
    ELSE month_columns(df)

\* the candidate records of the wide layout: month column outer, row inner
ExpectedWide ==
    LET n == Len(df.rows)
        cols == MonthColumnsUsed
        series == SalespersonSeries
        labels == [j \in 1..Len(cols) |-> normalize_month_year(StrV(cols[j]))]
    IN  [p \in 1..(Len(cols) * n) |->
            LET j == ((p - 1) \div n) + 1
                i == ((p - 1) % n) + 1
            IN  [index |-> p - 1,
                 comercial |-> Comercial(series, i),
                 cliente |-> CleanText(df.rows[i][2]),
                 mes |-> labels[j],
                 facturacion_bruta |-> parse_number(df.rows[i][ColumnIndex(df, cols[j])])]]

\* C3: in the wide layout the result is the candidates, month column outer and
\* row inner, without those the post-filter removes; a row with a salesperson, a
\* client and a positive revenue under every month column yields one record per
\* month column, all with its salesperson and client.
C3_WideOrder ==
    (Returned /\ IsWide) =>
        LET n == Len(df.rows)
            out == response.value
            expected == ExpectedWide
            k == Len(expected) \div (IF n = 0 THEN 1 ELSE n)
        IN  /\ out = SelectSeq(expected, LAMBDA rec : ~Failing(rec))
            /\ \A i \in 1..n :
                  LET mine == {q \in 1..Len(out) : out[q].index % n = i - 1}
                      built == {expected[(j - 1) * n + i] : j \in 1..k}
                  IN  (\A rec \in built : ~Failing(rec))
                      => /\ Cardinality(mine) = k
                         /\ \A q \in mine :
                               /\ out[q].comercial = expected[i].comercial
                               /\ out[q].cliente = expected[i].cliente
                         /\ {out[q].mes : q \in mine} = {rec.mes : rec \in built}

\* a wide table of two rows, the second inheriting the salesperson of the
\* first, that yields four records: two per row
C3_Witness ==
    /\ Returned /\ IsWide
    /\ Len(df.rows) = 2
    /\ IsNA(df.rows[2][1])
    /\ Len(response.value) = 4
    /\ response.value[2].index = 1 /\ response.value[3].index = 2
    /\ response.value[1].mes # response.value[3].mes
    /\ response.value[2].comercial = response.value[1].comercial

(***************************************************************************)
(* SpecResolve: the column resolution of normalize_dataset, over every     *)
(* table of two to MaxCols columns with headers from HeaderPool and every *)
(* mapping override of Overrides.  normalize_dataset runs in two steps:    *)
(* lines 260-287 (ResolveColumns), then lines 289-332 (BuildRecords).      *)
(***************************************************************************)
MaxCols == 3

HeaderPool ==
    { <<"C", "o", "m", "e", "r", "c", "i", "a", "l">>, <<"C", "l", "i", "e", "n", "t", "e", " ", "c", "o", "m", "e", "r", "c", "i", "a", "l">>, <<"E", "m", "p", "r", "e", "s", "a">>, <<"Z", "o", "n", "a">>, <<"E", "n", "e", "r", "o">>, <<"M", "e", "s">>,
      <<"I", "m", "p", "o", "r", "t", "e">>, <<"T", "o", "t", "a", "l">> }

\* the sequences of two to n distinct members of S
DistinctSeqs(S, n) ==
    {s \in SeqsUpTo(S, n) : Len(s) >= 2 /\ \A i, j \in 1..Len(s) : i # j => s[i] # s[j]}

\* one row of data: a revenue under a month or revenue header, a month under the
\* month header, a name elsewhere
CellUnder(header) ==
    IF header \in {<<"E", "n", "e", "r", "o">>, <<"I", "m", "p", "o", "r", "t", "e">>, <<"T", "o", "t", "a", "l">>} THEN IntV(100)
    ELSE IF header = <<"M", "e", "s">> THEN StrV(<<"E", "n", "e", " ", "2", "0", "2", "4">>)
    ELSE StrV(<<"A", "n", "a">>)

TableOf(columns) ==
    [columns |-> columns, rows |-> << [j \in 1..Len(columns) |-> CellUnder(columns[j])] >>]

\* the overrides for a table: any structure (a list among them), the first or
\* second column as comercial, the first as cliente (never the column given as
\* comercial), the last as month column
Overrides(columns) ==
    LET n == Len(columns)
        all == {[EmptyMapping EXCEPT !["structure"] = s, !["comercial"] = a,
                                     !["cliente"] = b, !["month_columns"] = m] :
                   s \in {JMissing, JStr(<<"l", "o", "n", "g">>), JStr(<<"w", "i", "d", "e">>), JList(<<>>)},
                   a \in {JMissing} \cup {JStr(columns[i]) : i \in 1..n \cap 1..2},
                   b \in {JMissing} \cup {JStr(columns[i]) : i \in 1..n \cap 1..1},
                   m \in {JMissing} \cup {JList(<<JStr(columns[i])>>) : i \in {n} \ {0}}}
    IN  {m \in all : m["comercial"] = JMissing \/ m["comercial"] # m["cliente"]}

InitResolve ==
    /\ pc = "start"
    /\ \E columns \in DistinctSeqs(HeaderPool, MaxCols) :
          /\ df = TableOf(columns)
          /\ mapping \in Overrides(columns)
    /\ request = <<>>
    /\ response = <<>>
    /\ file = <<>> /\ saver = <<>> /\ reader = <<>> /\ completed = <<>>

\* lines 260-287: sanitize the override, merge it with the detected mapping,
\* fall back to the leftmost columns, fail when a column is still unresolved
ResolveColumns ==
    /\ pc = "start"
    /\ \E sanitized \in {sanitize_mapping(mapping, df.columns)} :
          IF sanitized.exc # ""
          THEN /\ response' = Raise(sanitized.exc)
               /\ pc' = "done"
               /\ UNCHANGED request
          ELSE \E r \in {Resolve(df, sanitized.value)} :
                  IF r.salesperson_col = <<>> \/ r.client_col = <<>>
                  THEN /\ response' = Raise("HTTP400")
                       /\ pc' = "done"
                       /\ UNCHANGED request
                  ELSE /\ request' = r
                       /\ pc' = "resolved"
                       /\ UNCHANGED response
    /\ UNCHANGED <<df, mapping, file, saver, reader, completed>>

\* lines 289-332: resolve the structure, build the frame, filter it
BuildRecords ==
    /\ pc = "resolved"
    /\ response' = NormalizeWith(df, request)
    /\ pc' = "done"
    /\ UNCHANGED <<df, mapping, request, file, saver, reader, completed>>

SpecResolve == InitResolve /\ [][ResolveColumns \/ BuildRecords]_vars

\* C10: once normalize_dataset is past the column resolution, its salesperson
\* column and its client column are two different columns.
C10_DistinctColumns ==
    pc = "resolved" => request.salesperson_col # request.client_col

\* sanitize_mapping as section 4.5 has it: a structure that is not one of the
\* three values becomes unknown, whatever its type
SanitizedAsSpecified(m, available_columns) ==
    sanitize_mapping([m EXCEPT !["structure"] = IF Hashable(@) THEN @ ELSE JMissing],
                     available_columns).value

\* the three cases in which the claim has normalize_dataset end in a client error
ClientErrorCase ==
    LET r == Resolve(df, SanitizedAsSpecified(mapping, df.columns))
    IN  \/ r.salesperson_col = <<>> \/ r.client_col = <<>>
        \/ ResolvedStructure(r) = <<"l", "o", "n", "g">> /\ (r.month_col = <<>> \/ r.revenue_col = <<>>)
        \/ ResolvedStructure(r) # <<"l", "o", "n", "g">> /\ r.m_cols = <<>>

\* C4: normalize_dataset ends in a client error in exactly the three cases, and
\* returns a record set in every other.
C4_ErrorsExactly ==
    pc = "done" =>
        IF ClientErrorCase THEN response.exc = "HTTP400" ELSE response.exc = ""

(***************************************************************************)
(* SpecSanitize: sanitize_mapping over mapping objects whose fields hold   *)
(* JSON values of every type, against two lists of available columns.      *)
(***************************************************************************)
MaxItems == 2

AvailableLists == { << <<"C", "o", "m", "e", "r", "c", "i", "a", "l">>, <<"C", "l", "i", "e", "n", "t", "e">>, <<"E", "n", "e", "r", "o">> >>, << <<"E", "n", "e", "r", "o">>, <<"Z", "o", "n", "a">> >> }

\* what a column field may hold: a column of the first list, of the second,
\* of neither, and a value of each other JSON type
FieldValues ==
    { JMissing, JStr(<<"C", "o", "m", "e", "r", "c", "i", "a", "l">>), JStr(<<"Z", "o", "n", "a">>), JStr(<<"O", "t", "r", "a">>), JNum, JBool, JNull,
      JList(<<JStr(<<"C", "o", "m", "e", "r", "c", "i", "a", "l">>)>>), JObj }

StructureValues ==
    { JMissing, JStr(<<"l", "o", "n", "g">>), JStr(<<"w", "i", "d", "e">>), JStr(<<"u", "n", "k", "n", "o", "w", "n">>), JStr(<<"a", "n", "c", "h", "o">>), JNum,
      JNull, JList(<<>>), JObj }

MonthItems == { JStr(<<"E", "n", "e", "r", "o">>), JStr(<<"Z", "o", "n", "a">>), JStr(<<"O", "t", "r", "a">>), JNum }

MonthColumnsValues ==
    { JMissing, JStr(<<"E", "n", "e", "r", "o">>), JNull, JObj }
    \cup {JList(items) : items \in SeqsUpTo(MonthItems, MaxItems)}

InitSanitize ==
    /\ pc = "start"
    /\ df = <<>>
    /\ mapping \in {[EmptyMapping EXCEPT !["structure"] = s, !["comercial"] = a,
                                         !["cliente"] = b, !["month_columns"] = m] :
                       s \in StructureValues, a \in FieldValues,
                       b \in {JMissing, JStr(<<"C", "l", "i", "e", "n", "t", "e">>), JNum}, m \in MonthColumnsValues}
    /\ request \in {[available_columns |-> cols] : cols \in AvailableLists}
    /\ response = <<>>
    /\ file = <<>> /\ saver = <<>> /\ reader = <<>> /\ completed = <<>>

\* a call of sanitize_mapping(mapping, available_columns)
Sanitize ==
    /\ pc = "start"
    /\ response' = sanitize_mapping(mapping, request.available_columns)
    /\ pc' = "done"
    /\ UNCHANGED <<df, mapping, request, file, saver, reader, completed>>

SpecSanitize == InitSanitize /\ [][Sanitize]_vars

ColumnFields == {"comercial", "cliente", "mes", "facturacion"}

\* out is raw with some members left out
IsSubsequence(out, raw) ==
    \E f \in [1..Len(out) -> 1..Len(raw)] :
        /\ \A i \in 1..Len(out) : out[i] = raw[f[i]]
        /\ \A i, j \in 1..Len(out) : i < j => f[i] < f[j]

\* C5: the mapping sanitize_mapping returns has a structure of long, wide or
\* unknown, column fields that are empty or name an available column, and month
\* columns that are available, in the order given; a field that names a column
\* not available comes back empty.
C5_SanitizedIsSafe ==
    (pc = "done" /\ response.exc = "") =>
        LET out == response.value
            available == request.available_columns
            raw == IF mapping["month_columns"].t = "list"
                   THEN [i \in 1..Len(mapping["month_columns"].items) |->
                            mapping["month_columns"].items[i].s]
                   ELSE <<>>
        IN  /\ out.structure \in {<<"l", "o", "n", "g">>, <<"w", "i", "d", "e">>, <<"u", "n", "k", "n", "o", "w", "n">>}
            /\ \A f \in ColumnFields :
                  /\ out[f] = <<>> \/ InSeq(out[f], available)
                  /\ (mapping[f].t = "str" /\ ~InSeq(mapping[f].s, available)) => out[f] = <<>>
            /\ \A i \in 1..Len(out.month_columns) : InSeq(out.month_columns[i], available)
            /\ IsSubsequence(out.month_columns, raw)

\* a mapping with a field naming a column that is not available, which came back
\* empty, another that was kept, and month columns of which one was dropped
C5_Witness ==
    /\ pc = "done" /\ response.exc = ""
    /\ mapping["comercial"] = JStr(<<"Z", "o", "n", "a">>) /\ response.value.comercial = <<>>
    /\ response.value.cliente = <<"C", "l", "i", "e", "n", "t", "e">>
    /\ mapping["month_columns"] = JList(<<JStr(<<"O", "t", "r", "a">>), JStr(<<"E", "n", "e", "r", "o">>)>>)
    /\ response.value.month_columns = << <<"E", "n", "e", "r", "o">> >>

\* C6: sanitize_mapping never throws; a field that is missing or of the wrong
\* type has its empty default in the mapping returned.
C6_NeverThrows ==
    pc = "done" =>
        /\ response.exc = ""
        /\ mapping["structure"].t # "str" => response.value.structure = <<"u", "n", "k", "n", "o", "w", "n">>
        /\ \A f \in ColumnFields : mapping[f].t # "str" => response.value[f] = <<>>
        /\ mapping["month_columns"].t # "list" => response.value.month_columns = <<>>

(***************************************************************************)
(* SpecSort: the month labels of build_filter_options, sorted by           *)
(* month_year_sort_key, over every list of at most MaxLabels labels.       *)
(***************************************************************************)
MaxLabels == 3

\* labels normalize_month_year produces (a month with or without a year), and
\* labels that are no month
LabelPool ==
    { <<"m", "a", "r", "z", "o", " ", "2", "0", "2", "4">>, <<"e", "n", "e", "r", "o", " ", "2", "0", "2", "4">>, <<"d", "i", "c", "i", "e", "m", "b", "r", "e", " ", "2", "0", "2", "3">>, <<"e", "n", "e", "r", "o">>, <<"f", "o", "o", " ", "2", "0", "2", "3">>, <<"f", "o", "o">> }

InitSort ==
    /\ pc = "start"
    /\ request \in {[labels |-> labels] : labels \in SeqsUpTo(LabelPool, MaxLabels)}
    /\ response = <<>>
    /\ df = <<>> /\ mapping = <<>>
    /\ file = <<>> /\ saver = <<>> /\ reader = <<>> /\ completed = <<>>

\* sorted(labels, key=month_year_sort_key)
SortLabels ==
    /\ pc = "start"
    /\ response' = SortedByMonthYear(request.labels)
    /\ pc' = "done"
    /\ UNCHANGED <<df, mapping, request, file, saver, reader, completed>>

SpecSort == InitSort /\ [][SortLabels]_vars

\* the label has a canonical month and a year
Parseable(label) == month_year_sort_key(label)[1] # 0 /\ month_year_sort_key(label)[2] # 99

\* a is not later than b
NotLater(a, b) ==
    \/ month_year_sort_key(a)[1] < month_year_sort_key(b)[1]
    \/ /\ month_year_sort_key(a)[1] = month_year_sort_key(b)[1]
       /\ month_year_sort_key(a)[2] <= month_year_sort_key(b)[2]

\* C8: in a list sorted by month_year_sort_key the labels with a month and a
\* year are in chronological order, and every label without a year or without
\* a month comes after all of them.
C8_UnparseableLast ==
    pc = "done" =>
        \A i, j \in 1..Len(response) :
            i < j =>
                /\ (Parseable(response[i]) /\ Parseable(response[j]))
                      => NotLater(response[i], response[j])
                /\ ~(~Parseable(response[i]) /\ Parseable(response[j]))

(***************************************************************************)
(* SpecAnalyze: the analysis endpoint on long tables of at most            *)
(* MaxRecords rows, with every combination of the filters below.  The      *)
(* revenues are such that no sum falls half way between two hundredths.    *)
(***************************************************************************)
MaxRecords == 3

AnalyzeRows ==
    { <<StrV(<<"A", "n", "a">>), StrV(<<"X">>), StrV(<<"E", "n", "e", "r", "o", " ", "2", "0", "2", "4">>), IntV(100)>>,
      <<StrV(<<"A", "n", "a">>), StrV(<<"Y">>), StrV(<<"F", "e", "b", " ", "2", "0", "2", "4">>), StrV(<<"1", "0", "0", ",", "0", "1">>)>>,
      <<StrV(<<"R", "a", "m", "U+00F3", "n">>), StrV(<<"Y">>), StrV(<<"E", "n", "e", "r", "o", " ", "2", "0", "2", "4">>), StrV(<<"1", "0", "0", ",", "0", "0", "4">>)>> }

ComercialValues == {NoneV, StrV(<<>>), StrV(<<" ", "A", "N", "A", " ">>)}
ComercialesTexts ==
    { NoText, EmptyText, NotJson, JsonText(JObj), JsonText(JList(<<JStr(<<" ">>)>>)),
      JsonText(JList(<<JStr(<<"R", "A", "M", "O", "N">>), JNull>>)) }
MesValues == {NoneV, StrV(<<"E", "N", "E", "R", "O", " ", "2", "0", "2", "4">>)}
MesesTexts == {NoText, JsonText(JList(<<JStr(<<"f", "e", "b", "r", "e", "r", "o", " ", " ", "2", "0", "2", "4">>)>>))}
Rates == {-1, 5, 10}

InitAnalyze ==
    /\ pc = "start"
    /\ df \in {[columns |-> LongColumns, rows |-> rows] :
                  rows \in SeqsUpTo(AnalyzeRows, MaxRecords)}
    /\ mapping = EmptyMapping
    /\ request \in [commission_rate : Rates, comercial : ComercialValues, mes : MesValues,
                    comerciales_json : ComercialesTexts, meses_json : MesesTexts]
    /\ response = <<>>
    /\ file = <<>> /\ saver = <<>> /\ reader = <<>> /\ completed = <<>>

\* a request to /api/commissions/analyze
Analyze ==
    /\ pc = "start"
    /\ response' = analyze(df, mapping, request)
    /\ pc' = "done"
    /\ UNCHANGED <<df, mapping, request, file, saver, reader, completed>>

SpecAnalyze == InitAnalyze /\ [][Analyze]_vars

\* the items a multi-value filter yields
Yields(raw_json) ==
    IF raw_json.t = "json" /\ raw_json.json.t = "list"
    THEN SelectSeq([i \in 1..Len(raw_json.json.items) |-> ItemText(raw_json.json.items[i])],
                   LAMBDA text : \E k \in 1..Len(text) : ~IsSpace(text[k]))
    ELSE <<>>

\* the effective filter: the multi-value list when it yields an item, otherwise
\* the single value when given (not empty), otherwise none (<<>>)
Effective(raw_json, single) ==
    IF Yields(raw_json) # <<>> THEN Yields(raw_json)
    ELSE IF single.t = "str" /\ single.s # <<>> THEN <<single.s>>
    ELSE <<>>

\* a and b are the same text without regard to case and accents, as
\* normalize_text compares them
Same(a, b) == NormalizeStr(a) = NormalizeStr(b)

\* the records the filters select
Selected(records) ==
    LET comerciales == Effective(request.comerciales_json, request.comercial)
        meses == Effective(request.meses_json, request.mes)
    IN  SelectSeq(records,
            LAMBDA rec :
                /\ comerciales = <<>>
                   \/ \E i \in 1..Len(comerciales) : Same(rec.comercial, comerciales[i])
                /\ meses = <<>> \/ \E i \in 1..Len(meses) : Same(rec.mes, meses[i]))

\* the rows returned are the records given, in their order
RowsAre(rows, records) ==
    /\ Len(rows) = Len(records)
    /\ \A i \in 1..Len(rows) :
          /\ rows[i].comercial = records[i].comercial
          /\ rows[i].cliente = records[i].cliente
          /\ rows[i].mes = records[i].mes
          /\ rows[i].facturacion_bruta = Round2(records[i].facturacion_bruta.m, 1000)

Revenue(records) == SumSeq([i \in 1..Len(records) |-> records[i].facturacion_bruta.m])

\* C7 as stated: the rows are the records whose comercial and mes are in the
\* effective filters without regard to case and accents, registros is their
\* number, total facturacion_bruta is the sum of their revenues and total
\* comision_eur is that sum times rate / 100.
C7_TotalsAreSums ==
    (pc = "done" /\ response.exc = "") =>
        LET selected == Selected(normalize_dataset(df, mapping).value)
            totals == response.value.totals
        IN  /\ RowsAre(response.value.rows, selected)
            /\ totals.registros = Len(response.value.rows)
            /\ totals.facturacion_bruta * 10 = Revenue(selected)
            /\ totals.comision_eur * 1000 = Revenue(selected) * request.commission_rate

\* C7 amended: the rows are the records whose comercial and mes are in the
\* effective filters without regard to case and accents, registros is their
\* number, total facturacion_bruta is the sum of their revenues rounded to two
\* decimals and total comision_eur is that sum times rate / 100, rounded to two
\* decimals.
C7_TotalsAreRoundedSums ==
    (pc = "done" /\ response.exc = "") =>
        LET selected == Selected(normalize_dataset(df, mapping).value)
            totals == response.value.totals
        IN  /\ RowsAre(response.value.rows, selected)
            /\ totals.registros = Len(response.value.rows)
            /\ totals.facturacion_bruta = Round2(Revenue(selected), 1000)
            /\ totals.comision_eur
                  = Round2(Revenue(selected) * request.commission_rate, 100000)

\* a request whose multi-value comerciales filter takes precedence over the single
\* value and whose single mes filter applies, selecting of three records the one
\* of 100.004, with totals of 100.00 and 10.00 at a rate of 10
C7_Witness ==
    /\ pc = "done" /\ response.exc = ""
    /\ request.commission_rate = 10
    /\ Len(df.rows) = 3
    /\ request.comerciales_json = JsonText(JList(<<JStr(<<"R", "A", "M", "O", "N">>), JNull>>))
    /\ request.comercial = StrV(<<" ", "A", "N", "A", " ">>)
    /\ request.mes = StrV(<<"E", "N", "E", "R", "O", " ", "2", "0", "2", "4">>)
    /\ request.meses_json = NoText
    /\ response.value.totals
          = [facturacion_bruta |-> 10000, comision_eur |-> 1000, registros |-> 1]

(***************************************************************************)
(* SpecFile: requests to save and to read the mapping, each in a thread of *)
(* its own, interleaved at the file operations.  completed lists the       *)
(* mappings of the saves that have returned, in the order they returned.   *)
(***************************************************************************)
Savers == {"s1", "s2"}
Readers == {"r1"}

SavedMappings ==
    { <<>>, << << <<"m", "e", "s">>, <<"M", "e", "s">> >> >>, << << <<"m", "e", "s">>, <<"D", "i", "a">> >> >> }

None == "None"

InitFile ==
    /\ pc = "running"
    /\ file = [exists |-> FALSE, text |-> <<>>]
    /\ saver \in [Savers -> {[pc |-> "start", mapping |-> m] : m \in SavedMappings}]
    /\ reader = [r \in Readers |->
                    [pc |-> "start", began |-> 0, quiet |-> TRUE, result |-> None]]
    /\ completed = <<>>
    /\ df = <<>> /\ mapping = <<>> /\ request = <<>> /\ response = <<>>

\* a save is between its open and its return
InProgress == \E s \in Savers : saver[s].pc \in {"opened", "written"}

\* mapping_save: write_text opens the file for writing
SaveOpen(s) ==
    /\ saver[s].pc = "start"
    /\ file' = Truncated(file)
    /\ saver' = [saver EXCEPT ![s].pc = "opened"]
    /\ UNCHANGED <<pc, df, mapping, request, response, reader, completed>>

\* mapping_save: write_text writes the text and closes the file
SaveWrite(s) ==
    /\ saver[s].pc = "opened"
    /\ file' = Written(file, json_dumps(saver[s].mapping))
    /\ saver' = [saver EXCEPT ![s].pc = "written"]
    /\ UNCHANGED <<pc, df, mapping, request, response, reader, completed>>

\* mapping_save returns {"saved": True}
SaveReturn(s) ==
    /\ saver[s].pc = "written"
    /\ saver' = [saver EXCEPT ![s].pc = "done"]
    /\ completed' = Append(completed, saver[s].mapping)
    /\ UNCHANGED <<pc, df, mapping, request, response, file, reader>>

\* get_saved_mapping: MAPPING_FILE.exists()
ReadExists(r) ==
    /\ reader[r].pc = "start"
    /\ reader' = [reader EXCEPT ![r] =
                     [pc |-> IF file.exists THEN "exists" ELSE "done",
                      began |-> Len(completed),
                      quiet |-> ~InProgress,
                      result |-> None]]
    /\ UNCHANGED <<pc, df, mapping, request, response, file, saver, completed>>

\* get_saved_mapping: read_text, json.loads and the return
ReadText(r) ==
    /\ reader[r].pc = "exists"
    /\ \E data \in {json_loads(file.text, SavedMappings)} :
          reader' = [reader EXCEPT ![r].pc = "done",
                                   ![r].quiet = /\ reader[r].quiet /\ ~InProgress
                                                /\ Len(completed) = reader[r].began,
                                   ![r].result = IF data.exc = "" THEN data.value ELSE None]
    /\ UNCHANGED <<pc, df, mapping, request, response, file, saver, completed>>

NextFile ==
    \/ \E s \in Savers : SaveOpen(s) \/ SaveWrite(s) \/ SaveReturn(s)
    \/ \E r \in Readers : ReadExists(r) \/ ReadText(r)

SpecFile == InitFile /\ [][NextFile]_vars

\* C9: a read returns none only if no save had returned when it began, otherwise
\* it returns the mapping of one of the saves, and when no save was in progress
\* during the read, the mapping of the save that returned last.
C9_ReadsWholeLastSave ==
    \A r \in Readers :
        reader[r].pc = "done" =>
            /\ reader[r].result = None => reader[r].began = 0
            /\ reader[r].result # None => \E s \in Savers : reader[r].result = saver[s].mapping
            /\ (reader[r].quiet /\ reader[r].began > 0)
                  => reader[r].result = completed[reader[r].began]

=============================================================================
